---- MODULE Spec2Model ----
(***************************************************************************)
(* Model of gimli's reader.rs: the ReaderOffset trait with its three       *)
(* implementations (u64, u32, usize) and the Reader trait with its         *)
(* provided methods (read_null_terminated_slice, read_address, read_word,  *)
(* read_offset).                                                           *)
(*                                                                         *)
(* Representation of integers.  TLC's integers are 32 bits wide, so a Rust *)
(* unsigned integer of n bytes is modelled bit-exactly as the sequence of  *)
(* its n base-256 digits, least significant digit first; a signed integer  *)
(* is the digit sequence of its two's-complement bit pattern.              *)
(***************************************************************************)
EXTENDS Integers, Sequences, FiniteSets, TLC

VARIABLES
    endian,     \* Reader::Endian of the reader: "little" or "big"
    Offset,     \* Reader::Offset of the reader: "u32", "u64" or "usize"
    ptr_bits,   \* pointer width of the compilation target (width of usize)
    buf,        \* the bytes remaining in the reader, next byte first
    args,       \* two 64-bit values held by the caller of the offset operations
    last        \* the last operation: its name, inputs, reader before, outcome

vars == <<endian, Offset, ptr_bits, buf, args, last>>

-----------------------------------------------------------------------------
(* Bounds of the model. *)

\* Longest section a reader is created over.
MaxLen == 9

\* Longest section drawn over every byte string rather than over runs.
MaxFree == 6

\* Largest length handed to skip, split and truncate.
MaxArg == 3

-----------------------------------------------------------------------------
(* Rust integer primitives, on digit sequences. *)

Max(x, y) == IF x >= y THEN x ELSE y

\* Digit i of v, zero beyond its width.
Digit(v, i) == IF i <= Len(v) THEN v[i] ELSE 0

Zero(n) == [i \in 1..n |-> 0]

\* `v as uN`/`v as usize` for an unsigned v: truncation or zero extension.
as_unsigned(v, n) == [i \in 1..n |-> Digit(v, i)]

\* `v as uN`/`v as usize` for a signed v: truncation or sign extension.
as_from_signed(v, n) ==
    LET fill == IF v[Len(v)] >= 128 THEN 255 ELSE 0
    IN  [i \in 1..n |-> IF i <= Len(v) THEN v[i] ELSE fill]

\* Width in bytes of an offset type on the target.
SizeOf(T) ==
    CASE T = "u32" -> 4
      [] T = "u64" -> 8
      [] T = "usize" -> ptr_bits \div 8

RECURSIVE AddDigits(_, _, _, _)
\* Ripple-carry addition of two integers of the same width from digit i on,
\* the carry out of the top digit discarded.
AddDigits(a, b, i, carry) ==
    IF i > Len(a) THEN <<>>
    ELSE LET s == a[i] + b[i] + carry
         IN  <<s % 256>> \o AddDigits(a, b, i + 1, s \div 256)

\* uN::wrapping_add of the standard library.
prim_wrapping_add(a, b) == AddDigits(a, b, 1, 0)

RECURSIVE SubDigits(_, _, _, _)
\* Ripple-borrow subtraction from digit i on: the digits and the borrow out.
SubDigits(a, b, i, borrow) ==
    IF i > Len(a) THEN [digits |-> <<>>, borrow |-> borrow]
    ELSE LET d == a[i] - b[i] - borrow
             rest == SubDigits(a, b, i + 1, IF d < 0 THEN 1 ELSE 0)
         IN  [digits |-> <<d % 256>> \o rest.digits, borrow |-> rest.borrow]

Some(v) == [some |-> TRUE, val |-> v]
None == [some |-> FALSE, val |-> <<>>]

\* uN::checked_sub of the standard library.
prim_checked_sub(a, b) ==
    LET r == SubDigits(a, b, 1, 0)
    IN  IF r.borrow = 1 THEN None ELSE Some(r.digits)

-----------------------------------------------------------------------------
(* parser::Result *)

Ok(v) == [ok |-> TRUE, val |-> v, err |-> "none", info |-> 0]
Err(e) == [ok |-> FALSE, val |-> <<>>, err |-> e, info |-> 0]
ErrWith(e, n) == [ok |-> FALSE, val |-> <<>>, err |-> e, info |-> n]

\* Result::map with the closure |v| v as u64
map_as_u64(r) == IF r.ok THEN Ok(as_unsigned(r.val, 8)) ELSE r

-----------------------------------------------------------------------------
(* impl ReaderOffset for u64, u32, usize *)

OffsetTypes == {"u32", "u64", "usize"}

from_u8(T, offset) == as_unsigned(offset, SizeOf(T))

from_u16(T, offset) == as_unsigned(offset, SizeOf(T))

\* from_i16 going through the unsigned pattern: `offset as u16 as Self`.
from_i16_zero_extended(T, offset) == as_unsigned(offset, SizeOf(T))

from_i16(T, offset) == as_from_signed(offset, SizeOf(T))

from_u32(T, offset) ==
    IF T = "u32" THEN offset ELSE as_unsigned(offset, SizeOf(T))

\* from_u64 narrowing without the round-trip check.
from_u64_unchecked(T, offset64) == Ok(as_unsigned(offset64, SizeOf(T)))

from_u64(T, offset64) ==
    IF T = "u64" THEN Ok(offset64)
    ELSE LET offset == as_unsigned(offset64, SizeOf(T))
         IN  IF as_unsigned(offset, 8) = offset64
             THEN Ok(offset)
             ELSE Err("UnsupportedOffset")

into_u64(T, self) ==
    IF T = "u64" THEN self ELSE as_unsigned(self, 8)

wrapping_add(T, self, other) == prim_wrapping_add(self, other)

\* checked_sub delegating to wrapping_sub.
checked_sub_wrapping(T, self, other) == Some(SubDigits(self, other, 1, 0).digits)

checked_sub(T, self, other) == prim_checked_sub(self, other)

\* Result::and_then with Self::Offset::from_u64
and_then_from_u64(T, r) == IF r.ok THEN from_u64(T, r.val) ELSE r

-----------------------------------------------------------------------------
(* The offset operations applied to sample values. *)

\* Pointer widths of the targets the crate builds for (it depends on std).
PtrWidths == {32, 64}

DigitVals == {0, 128, 255}

\* 64-bit samples: a run of one digit below a run of another, and 1, 2^32.
U64Samples ==
    {[i \in 1..8 |-> IF i <= k THEN x ELSE y] :
        k \in 0..8, x \in DigitVals, y \in DigitVals}
    \cup {<<1, 0, 0, 0, 0, 0, 0, 0>>, <<0, 0, 0, 0, 1, 0, 0, 0>>}

NoOp == [op |-> "init", a |-> <<>>, b |-> <<>>, pre |-> <<>>, out |-> <<>>]

Did(op, a, b, pre, out) ==
    [op |-> op, a |-> a, b |-> b, pre |-> pre, out |-> out]

InitOffset ==
    /\ endian = "little"
    /\ Offset \in OffsetTypes
    /\ ptr_bits \in PtrWidths
    /\ buf = <<>>
    /\ args \in U64Samples \X U64Samples
    /\ last = NoOp

Low(v, n) == SubSeq(v, 1, n)

\* The offsets the caller can hold: those from_u64 constructs from args.
Held(i) == from_u64(Offset, args[i])

FromU8 ==
    /\ last' = Did("from_u8", Low(args[1], 1), <<>>, <<>>,
                   from_u8(Offset, Low(args[1], 1)))
    /\ UNCHANGED <<endian, Offset, ptr_bits, buf, args>>

FromU16 ==
    /\ last' = Did("from_u16", Low(args[1], 2), <<>>, <<>>,
                   from_u16(Offset, Low(args[1], 2)))
    /\ UNCHANGED <<endian, Offset, ptr_bits, buf, args>>

FromI16 ==
    /\ last' = Did("from_i16", Low(args[1], 2), <<>>, <<>>,
                   from_i16(Offset, Low(args[1], 2)))
    /\ UNCHANGED <<endian, Offset, ptr_bits, buf, args>>

FromU32 ==
    /\ last' = Did("from_u32", Low(args[1], 4), <<>>, <<>>,
                   from_u32(Offset, Low(args[1], 4)))
    /\ UNCHANGED <<endian, Offset, ptr_bits, buf, args>>

FromU64 ==
    /\ last' = Did("from_u64", args[1], <<>>, <<>>, from_u64(Offset, args[1]))
    /\ UNCHANGED <<endian, Offset, ptr_bits, buf, args>>

IntoU64 ==
    /\ Held(1).ok
    /\ last' = Did("into_u64", Held(1).val, <<>>, <<>>,
                   into_u64(Offset, Held(1).val))
    /\ UNCHANGED <<endian, Offset, ptr_bits, buf, args>>

WrappingAdd ==
    /\ Held(1).ok /\ Held(2).ok
    /\ last' = Did("wrapping_add", Held(1).val, Held(2).val, <<>>,
                   wrapping_add(Offset, Held(1).val, Held(2).val))
    /\ UNCHANGED <<endian, Offset, ptr_bits, buf, args>>

CheckedSub ==
    /\ Held(1).ok /\ Held(2).ok
    /\ last' = Did("checked_sub", Held(1).val, Held(2).val, <<>>,
                   checked_sub(Offset, Held(1).val, Held(2).val))
    /\ UNCHANGED <<endian, Offset, ptr_bits, buf, args>>

NextOffset ==
    \/ FromU8 \/ FromU16 \/ FromI16 \/ FromU32 \/ FromU64
    \/ IntoU64 \/ WrappingAdd \/ CheckedSub

SpecOffset == InitOffset /\ [][NextOffset]_vars

-----------------------------------------------------------------------------
(* The Reader trait: the required methods, as a conforming backend over a  *)
(* byte slice implements them.  A method taking &mut self yields the       *)
(* reader afterwards (self) and what it returns (ret).                     *)

After(self, ret) == [self |-> self, ret |-> ret]

Unit == <<>>

\* Reader::len: the number of bytes remaining, as a Self::Offset.
len(self) == as_unsigned(<<Len(self)>>, SizeOf(Offset))

\* Reader::is_empty
is_empty(self) == Len(self) = 0

\* Whether the offset n exceeds the bytes remaining (n > self.len()).
Exceeds(self, n) ==
    \/ n[1] > Len(self)
    \/ \E i \in 2..Len(n) : n[i] # 0

\* Reader::empty
empty(self) == After(<<>>, Unit)

\* Reader::truncate
truncate(self, n) ==
    IF Exceeds(self, n) THEN After(self, Err("OutOfBounds"))
    ELSE After(SubSeq(self, 1, n[1]), Ok(Unit))

\* Reader::find
find(self, byte) ==
    IF \E i \in 1..Len(self) : self[i] = byte[1]
    THEN LET first == CHOOSE i \in 1..Len(self) :
                          /\ self[i] = byte[1]
                          /\ \A j \in 1..(i - 1) : self[j] # byte[1]
         IN  Ok(as_unsigned(<<first - 1>>, SizeOf(Offset)))
    ELSE Err("UnexpectedEof")

\* Reader::skip
skip(self, n) ==
    IF Exceeds(self, n) THEN After(self, Err("UnexpectedEof"))
    ELSE After(SubSeq(self, n[1] + 1, Len(self)), Ok(Unit))

\* Reader::split
split(self, n) ==
    IF Exceeds(self, n) THEN After(self, Err("UnexpectedEof"))
    ELSE After(SubSeq(self, n[1] + 1, Len(self)), Ok(SubSeq(self, 1, n[1])))

\* Endianity: the integer a group of n bytes holds, in the reader's order.
read_bytes(self, n) ==
    IF endian = "little" THEN SubSeq(self, 1, n)
    ELSE [i \in 1..n |-> self[n + 1 - i]]

\* Reader::read_u8 .. read_u64 (and read_i8 .. read_i64, as bit patterns).
read_fixed(self, n) ==
    IF Len(self) < n THEN After(self, Err("UnexpectedEof"))
    ELSE After(SubSeq(self, n + 1, Len(self)), Ok(read_bytes(self, n)))

read_u8(self) == read_fixed(self, 1)

read_u16(self) == read_fixed(self, 2)

read_u32(self) == read_fixed(self, 4)

read_u64(self) == read_fixed(self, 8)

read_i8(self) == read_fixed(self, 1)

read_i16(self) == read_fixed(self, 2)

read_i32(self) == read_fixed(self, 4)

read_i64(self) == read_fixed(self, 8)

-----------------------------------------------------------------------------
(* The Reader trait: the provided methods. *)

Formats == {"Dwarf32", "Dwarf64"}

\* read_null_terminated_slice without the skip of the terminator.
read_null_terminated_slice_no_skip(self) ==
    LET idx == find(self, <<0>>)
    IN  IF ~idx.ok THEN After(self, idx) ELSE split(self, idx.val)

\* read_null_terminated_slice splitting the terminator off with the slice.
read_null_terminated_slice_keeps_null(self) ==
    LET idx == find(self, <<0>>)
    IN  IF ~idx.ok THEN After(self, idx)
        ELSE split(self, prim_wrapping_add(idx.val, from_u8(Offset, <<1>>)))

\* read_null_terminated_slice reading byte by byte until a zero byte, which
\* has consumed the reader when there is none.
read_null_terminated_slice_bytewise(self) ==
    LET idx == find(self, <<0>>)
    IN  IF ~idx.ok THEN After(<<>>, idx)
        ELSE After(skip(split(self, idx.val).self, from_u8(Offset, <<1>>)).self,
                   split(self, idx.val).ret)

read_null_terminated_slice(self) ==
    LET idx == find(self, <<0>>)
    IN  IF ~idx.ok THEN After(self, idx)
        ELSE LET val == split(self, idx.val)
             IN  IF ~val.ret.ok THEN val
                 ELSE LET skipped == skip(val.self, from_u8(Offset, <<1>>))
                      IN  IF ~skipped.ret.ok THEN skipped
                          ELSE After(skipped.self, Ok(val.ret.val))

\* read_address with the arm for 2 reading a u32.
read_address_misdispatch(self, address_size) ==
    CASE address_size = 1 ->
            LET r == read_u8(self)
            IN  After(r.self, map_as_u64(r.ret))
      [] address_size \in {2, 4} ->
            LET r == read_u32(self)
            IN  After(r.self, map_as_u64(r.ret))
      [] address_size = 8 -> read_u64(self)
      [] OTHER ->
            After(self, ErrWith("UnsupportedAddressSize", address_size))

read_address(self, address_size) ==
    CASE address_size = 1 ->
            LET r == read_u8(self)
            IN  After(r.self, map_as_u64(r.ret))
      [] address_size = 2 ->
            LET r == read_u16(self)
            IN  After(r.self, map_as_u64(r.ret))
      [] address_size = 4 ->
            LET r == read_u32(self)
            IN  After(r.self, map_as_u64(r.ret))
      [] address_size = 8 -> read_u64(self)
      [] OTHER ->
            After(self, ErrWith("UnsupportedAddressSize", address_size))

\* read_word reading a u32 whatever the format.
read_word_always32(self, format) ==
    LET r == read_u32(self)
    IN  After(r.self, map_as_u64(r.ret))

read_word(self, format) ==
    CASE format = "Dwarf32" ->
            LET r == read_u32(self)
            IN  After(r.self, map_as_u64(r.ret))
      [] format = "Dwarf64" -> read_u64(self)

\* read_offset narrowing with `as` in place of from_u64.
read_offset_truncating(self, format) ==
    LET w == read_word(self, format)
    IN  After(w.self, IF w.ret.ok THEN Ok(as_unsigned(w.ret.val, SizeOf(Offset))) ELSE w.ret)

\* read_offset reading from a clone and advancing only on success.
read_offset_atomic(self, format) ==
    LET w == read_word(self, format)
        r == and_then_from_u64(Offset, w.ret)
    IN  After(IF r.ok THEN w.self ELSE self, r)

read_offset(self, format) ==
    LET w == read_word(self, format)
    IN  After(w.self, and_then_from_u64(Offset, w.ret))

-----------------------------------------------------------------------------
(* A reader over a section, and the operations a decoder applies to it. *)

SectionBytes == {0, 255}

\* The section of the documented scenario: 5, "", "hi".
Scenario == <<5, 0, 104, 105, 0>>

\* Sections: every byte string up to MaxFree bytes, every string of two
\* runs up to MaxLen bytes, and the scenario.
Sections ==
    UNION {[1..n -> SectionBytes] : n \in 0..MaxFree}
    \cup {[i \in 1..n |-> IF i <= k THEN x ELSE y] :
            n \in 0..MaxLen, k \in 0..MaxLen, x \in SectionBytes, y \in SectionBytes}
    \cup {Scenario}

LenArgs == {from_u8(Offset, <<n>>) : n \in 0..MaxArg}

\* Address sizes tried, of the u8 values 0..255.
AddressSizes == (0..9) \cup {16, 255}

Init ==
    /\ endian \in {"little", "big"}
    /\ Offset \in OffsetTypes
    /\ ptr_bits \in PtrWidths
    /\ buf \in Sections
    /\ args = <<Zero(8), Zero(8)>>
    /\ last = NoOp

\* Apply a &mut self method: the reader becomes r.self, r.ret is returned.
Apply(op, a, r) ==
    /\ buf' = r.self
    /\ last' = Did(op, a, <<>>, buf, r.ret)
    /\ UNCHANGED <<endian, Offset, ptr_bits, args>>

\* Apply a &self method returning ret.
Query(op, a, ret) == Apply(op, a, After(buf, ret))

Empty == Apply("empty", <<>>, empty(buf))

Truncate == \E n \in LenArgs : Apply("truncate", n, truncate(buf, n))

Find == \E b \in SectionBytes : Query("find", <<b>>, find(buf, <<b>>))

Skip == \E n \in LenArgs : Apply("skip", n, skip(buf, n))

Split == \E n \in LenArgs : Apply("split", n, split(buf, n))

ReadU8 == Apply("read_u8", <<>>, read_u8(buf))

ReadU16 == Apply("read_u16", <<>>, read_u16(buf))

ReadU32 == Apply("read_u32", <<>>, read_u32(buf))

ReadU64 == Apply("read_u64", <<>>, read_u64(buf))

ReadI8 == Apply("read_i8", <<>>, read_i8(buf))

ReadI16 == Apply("read_i16", <<>>, read_i16(buf))

ReadI32 == Apply("read_i32", <<>>, read_i32(buf))

ReadI64 == Apply("read_i64", <<>>, read_i64(buf))

ReadNullTerminatedSlice ==
    Apply("read_null_terminated_slice", <<>>, read_null_terminated_slice(buf))

ReadAddress ==
    \E n \in AddressSizes : Apply("read_address", n, read_address(buf, n))

ReadWord == \E f \in Formats : Apply("read_word", f, read_word(buf, f))

ReadOffset == \E f \in Formats : Apply("read_offset", f, read_offset(buf, f))

Next ==
    \/ Empty \/ Truncate \/ Find \/ Skip \/ Split
    \/ ReadU8 \/ ReadU16 \/ ReadU32 \/ ReadU64
    \/ ReadI8 \/ ReadI16 \/ ReadI32 \/ ReadI64
    \/ ReadNullTerminatedSlice \/ ReadAddress \/ ReadWord \/ ReadOffset

Spec == Init /\ [][Next]_vars

-----------------------------------------------------------------------------
(* Natural-number reading of digit sequences, used to state the claims. *)

\* Width in bits the documentation gives each offset type.
BitsOf(T) ==
    CASE T = "u32" -> 32
      [] T = "u64" -> 64
      [] T = "usize" -> ptr_bits

\* v < 2^bits
Fits(v, bits) == \A i \in 1..Len(v) : i > bits \div 8 => v[i] = 0

\* a = b as natural numbers, whatever their widths.
NatEq(a, b) == \A i \in 1..Max(Len(a), Len(b)) : Digit(a, i) = Digit(b, i)

\* a < b as natural numbers.
NatLess(a, b) ==
    \E i \in 1..Max(Len(a), Len(b)) :
        /\ Digit(a, i) < Digit(b, i)
        /\ \A j \in (i + 1)..Max(Len(a), Len(b)) : Digit(a, j) = Digit(b, j)

RECURSIVE CarryInto(_, _, _)
\* The carry into digit i of the unbounded sum a + b.
CarryInto(a, b, i) ==
    IF i = 1 THEN 0
    ELSE (Digit(a, i - 1) + Digit(b, i - 1) + CarryInto(a, b, i - 1)) \div 256

\* a + b as a natural number: one digit wider than the wider operand.
NatAdd(a, b) ==
    [i \in 1..(Max(Len(a), Len(b)) + 1) |->
        (Digit(a, i) + Digit(b, i) + CarryInto(a, b, i)) % 256]

\* 2^bits
Pow2(bits) == [i \in 1..(bits \div 8 + 1) |-> IF i = bits \div 8 + 1 THEN 1 ELSE 0]

\* n mod 2^bits
ModPow2(n, bits) == [i \in 1..(bits \div 8) |-> Digit(n, i)]

\* A value of offset type T: exactly as many digits as T has bytes.
IsOffset(T, v) ==
    /\ Len(v) * 8 = BitsOf(T)
    /\ \A i \in 1..Len(v) : v[i] \in 0..255

\* The value of an i16 given by its bit pattern.
I16Value(v) ==
    LET u == v[1] + 256 * v[2] IN IF u >= 32768 THEN u - 65536 ELSE u

\* The digits of a natural number below 2^16.
U16Digits(n) == <<n % 256, n \div 256>>

-----------------------------------------------------------------------------
(* Claims about the offset operations, under SpecOffset. *)

\* C1: for each offset width W (u32, u64, usize) and every 64-bit v,
\* from_u64(v) succeeds iff v < 2^W, fails with UnsupportedOffset otherwise,
\* and on success into_u64(from_u64(v)) = v.
C1_FromU64Exact ==
    last.op = "from_u64" =>
        /\ last.out.ok <=> Fits(last.a, BitsOf(Offset))
        /\ ~last.out.ok => last.out.err = "UnsupportedOffset"
        /\ last.out.ok =>
            /\ IsOffset(Offset, last.out.val)
            /\ into_u64(Offset, last.out.val) = last.a

\* from_u64 of 2^32 into a u32 offset has failed with UnsupportedOffset.
C1_Witness ==
    /\ last.op = "from_u64"
    /\ Offset = "u32"
    /\ last.a = <<0, 0, 0, 0, 1, 0, 0, 0>>
    /\ last.out = Err("UnsupportedOffset")

\* C7: for each offset width W and all offsets a, b of that width,
\* wrapping_add(a, b) is the offset (a + b) mod 2^W, and checked_sub(a, b)
\* is None exactly when b > a and Some(a - b) otherwise.
C7_AddSubExact ==
    /\ last.op = "wrapping_add" =>
        /\ IsOffset(Offset, last.out)
        /\ last.out = ModPow2(NatAdd(last.a, last.b), BitsOf(Offset))
    /\ last.op = "checked_sub" =>
        /\ last.out.some <=> ~NatLess(last.a, last.b)
        /\ last.out.some =>
            /\ IsOffset(Offset, last.out.val)
            /\ NatEq(NatAdd(last.out.val, last.b), last.a)

\* A wrapping_add on u32 offsets whose true sum is 2^32 or more has wrapped.
C7_Witness ==
    /\ last.op = "wrapping_add"
    /\ Offset = "u32"
    /\ NatAdd(last.a, last.b)[5] = 1
    /\ NatLess(last.out, last.a)

\* C10: from_u8, from_u16 and from_u32 preserve the value in every width
\* (into_u64 of the result is the source); from_i16 preserves a non-negative
\* source but maps a negative v to 2^W + v, which lies above the image of
\* every non-negative i16, so from_i16 does not preserve the signed order.
C10_WideningValues ==
    /\ last.op \in {"from_u8", "from_u16", "from_u32"} =>
        /\ IsOffset(Offset, last.out)
        /\ NatEq(into_u64(Offset, last.out), last.a)
        /\ Len(into_u64(Offset, last.out)) = 8
    /\ last.op = "from_i16" =>
        /\ IsOffset(Offset, last.out)
        /\ I16Value(last.a) >= 0 => NatEq(into_u64(Offset, last.out), last.a)
        /\ I16Value(last.a) < 0 =>
            /\ NatEq(NatAdd(last.out, U16Digits(0 - I16Value(last.a))),
                     Pow2(BitsOf(Offset)))
            /\ NatLess(from_i16(Offset, U16Digits(32767)), last.out)

\* from_i16(-1) into a u32 offset has produced 0xFFFF_FFFF.
C10_Witness ==
    /\ last.op = "from_i16"
    /\ Offset = "u32"
    /\ I16Value(last.a) = 0 - 1
    /\ last.out = <<255, 255, 255, 255>>

-----------------------------------------------------------------------------
(* Claims about the reader, under Spec. *)

HasZero(s) == \E i \in 1..Len(s) : s[i] = 0

\* Position (from 1) of the first zero byte of s.
FirstZero(s) ==
    CHOOSE k \in 1..Len(s) : s[k] = 0 /\ \A j \in 1..(k - 1) : s[j] # 0

\* s without its first n bytes.
Drop(s, n) == SubSeq(s, n + 1, Len(s))

ZeroExtend64(v) == v \o Zero(8 - Len(v))

\* A result with its value zero-extended to 64 bits.
Widened(r) == IF r.ok THEN Ok(ZeroExtend64(r.val)) ELSE r

FormatBytes(f) == IF f = "Dwarf32" THEN 4 ELSE 8

FixedWidth(op) ==
    CASE op \in {"read_u8", "read_i8"} -> 1
      [] op \in {"read_u16", "read_i16"} -> 2
      [] op \in {"read_u32", "read_i32"} -> 4
      [] op \in {"read_u64", "read_i64"} -> 8

FixedReads ==
    {"read_u8", "read_i8", "read_u16", "read_i16",
     "read_u32", "read_i32", "read_u64", "read_i64"}

RNTS == "read_null_terminated_slice"

\* C2: when the remaining bytes hold their first zero byte at index k,
\* read_null_terminated_slice succeeds, returns the first k bytes and leaves
\* the reader just after the terminator, k + 1 bytes shorter.
C2_NullTerminatedSlice ==
    (last.op = RNTS /\ HasZero(last.pre)) =>
        LET k == FirstZero(last.pre) - 1
        IN  /\ last.out = Ok(SubSeq(last.pre, 1, k))
            /\ buf = Drop(last.pre, k + 1)
            /\ Len(buf) = Len(last.pre) - (k + 1)

\* A slice of two bytes has been read, with bytes left after its terminator.
C2_Witness ==
    /\ last.op = RNTS
    /\ last.out.ok
    /\ Len(last.out.val) = 2
    /\ Len(buf) >= 1

\* The steps of the documented scenario, as steps of the reader.
ScenarioReadU8 ==
    (buf = Scenario /\ last'.op = "read_u8") =>
        last'.out = Ok(<<5>>) /\ buf' = <<0, 104, 105, 0>>

ScenarioSliceNext ==
    last.op = "read_u8" /\ last.pre = Scenario /\ last'.op = RNTS

\* C3 as stated: over [5, 0, 'h', 'i', 0], read_u8 yields 5 and leaves
\* [0, 'h', 'i', 0]; read_null_terminated_slice issued next on that reader
\* yields "hi" and leaves the reader empty.
C3_Original ==
    [][/\ ScenarioReadU8
       /\ ScenarioSliceNext =>
            last'.out = Ok(<<104, 105>>) /\ buf' = <<>>]_vars

\* C3 amended: over [5, 0, 'h', 'i', 0], read_u8 yields 5 and leaves
\* [0, 'h', 'i', 0]; read_null_terminated_slice issued next on that reader
\* yields the empty slice and leaves ['h', 'i', 0], 3 bytes; issued once
\* more it yields "hi" and leaves the reader empty.
C3_Scenario ==
    [][/\ ScenarioReadU8
       /\ ScenarioSliceNext =>
            /\ last'.out = Ok(<<>>)
            /\ buf' = <<104, 105, 0>>
            /\ Len(buf') = 3
       /\ (/\ last.op = RNTS
           /\ last.pre = <<0, 104, 105, 0>>
           /\ last'.op = RNTS) =>
            last'.out = Ok(<<104, 105>>) /\ buf' = <<>>]_vars

\* The second read_null_terminated_slice of the scenario has run: the reader
\* left by the first, ['h', 'i', 0], has been read to its end.
C3_Witness ==
    /\ last.op = RNTS
    /\ last.pre = <<104, 105, 0>>
    /\ last.out.ok
    /\ buf = <<>>

\* C4: read_address(n) for n in 1, 2, 4, 8 has the outcome of read_u8,
\* read_u16, read_u32, read_u64 zero-extended to 64 bits and the same effect
\* on the reader; for any other n it fails with UnsupportedAddressSize(n).
C4_ReadAddress ==
    last.op = "read_address" =>
        LET fixed == CASE last.a = 1 -> read_u8(last.pre)
                       [] last.a = 2 -> read_u16(last.pre)
                       [] last.a = 4 -> read_u32(last.pre)
                       [] last.a = 8 -> read_u64(last.pre)
                       [] OTHER -> After(last.pre, Unit)
        IN  IF last.a \in {1, 2, 4, 8}
            THEN /\ last.out = Widened(fixed.ret)
                 /\ buf = fixed.self
                 /\ last.out.ok => Len(last.out.val) = 8
            ELSE /\ ~last.out.ok
                 /\ last.out.err = "UnsupportedAddressSize"
                 /\ last.out.info = last.a

\* read_address(4) has returned a non-zero address.
C4_Witness ==
    /\ last.op = "read_address"
    /\ last.a = 4
    /\ last.out.ok
    /\ last.out.val # Zero(8)

\* C5: read_offset(format) reads 4 bytes for Dwarf32 and 8 for Dwarf64, the
\* value read_word(format) returns; it returns that value as an offset iff
\* the value fits the offset width and UnsupportedOffset if not; a failure
\* of the read is returned as it is.
C5_ReadOffset ==
    LET fixed == IF last.a = "Dwarf32" THEN read_u32(last.pre)
                 ELSE read_u64(last.pre)
        word == Widened(fixed.ret)
    IN  /\ last.op = "read_word" => last.out = word /\ buf = fixed.self
        /\ last.op = "read_offset" =>
            /\ ~word.ok => last.out = word
            /\ word.ok =>
                /\ Len(word.val) = 8
                /\ Len(last.pre) - Len(buf) = FormatBytes(last.a)
                /\ last.out.ok <=> Fits(word.val, BitsOf(Offset))
                /\ last.out.ok =>
                    /\ IsOffset(Offset, last.out.val)
                    /\ NatEq(last.out.val, word.val)
                /\ ~last.out.ok => last.out = Err("UnsupportedOffset")

\* read_offset(Dwarf64) has returned a non-zero 32-bit offset.
C5_Witness ==
    /\ last.op = "read_offset"
    /\ last.a = "Dwarf64"
    /\ Offset = "u32"
    /\ last.out.ok
    /\ last.out.val # Zero(4)

\* C6: no operation on the reader, failed or not, increases the remaining
\* length; a successful read shortens it by exactly the bytes it consumes
\* (a fixed-width read by its width, read_address(n) by n, read_word and
\* read_offset by 4 for Dwarf32 and 8 for Dwarf64), never below zero.
C6_LengthOnlyDecreases ==
    last.op # "init" =>
        /\ Len(buf) <= Len(last.pre)
        /\ Len(buf) >= 0
        /\ len(buf) = as_unsigned(<<Len(buf)>>, BitsOf(Offset) \div 8)
        /\ (last.op \in FixedReads /\ last.out.ok) =>
            Len(buf) = Len(last.pre) - FixedWidth(last.op)
        /\ (last.op = "read_address" /\ last.out.ok) =>
            Len(buf) = Len(last.pre) - last.a
        /\ (last.op \in {"read_word", "read_offset"} /\ last.out.ok) =>
            Len(buf) = Len(last.pre) - FormatBytes(last.a)

\* read_word(Dwarf64) has succeeded and left one byte.
C6_Witness ==
    /\ last.op = "read_word"
    /\ last.a = "Dwarf64"
    /\ last.out.ok
    /\ Len(buf) = 1

\* C8: when the remaining bytes hold no zero byte, or the reader is empty,
\* read_null_terminated_slice fails with find(0)'s UnexpectedEof and leaves
\* the reader as it was; when find(0) succeeds, split and skip(1) succeed,
\* so the operation consumes nothing unless it succeeds.
C8_AllOrNothing ==
    last.op = RNTS =>
        /\ ~HasZero(last.pre) =>
            /\ last.out = find(last.pre, <<0>>)
            /\ last.out = Err("UnexpectedEof")
            /\ buf = last.pre
        /\ find(last.pre, <<0>>).ok =>
            LET carved == split(last.pre, find(last.pre, <<0>>).val)
            IN  /\ carved.ret.ok
                /\ skip(carved.self, from_u8(Offset, <<1>>)).ret.ok
                /\ last.out.ok
        /\ ~last.out.ok => buf = last.pre

\* read_null_terminated_slice has failed on a reader of two or more bytes.
C8_Witness ==
    /\ last.op = RNTS
    /\ ~last.out.ok
    /\ Len(last.pre) >= 2

\* C9: a read_offset that fails with UnsupportedOffset has consumed its
\* word: with a 32-bit offset type and 8 or more bytes left,
\* read_offset(Dwarf64) of a value of 2^32 or more fails with
\* UnsupportedOffset and leaves the reader 8 bytes shorter; a read_offset
\* failing for lack of bytes and a read_address of an unsupported size
\* leave the remaining length as it was.
C9_FailedReadEffects ==
    /\ (/\ last.op = "read_offset"
        /\ last.a = "Dwarf64"
        /\ BitsOf(Offset) = 32
        /\ Len(last.pre) >= 8
        /\ ~Fits(read_bytes(last.pre, 8), 32)) =>
            /\ last.out = Err("UnsupportedOffset")
            /\ Len(buf) = Len(last.pre) - 8
    /\ (last.op = "read_offset" /\ Len(last.pre) < FormatBytes(last.a)) =>
            /\ ~last.out.ok
            /\ Len(buf) = Len(last.pre)
    /\ (last.op = "read_address" /\ last.a \notin {1, 2, 4, 8}) =>
            /\ ~last.out.ok
            /\ Len(buf) = Len(last.pre)

\* read_offset(Dwarf64) into a u32 offset has failed with UnsupportedOffset
\* on a reader that is now 8 bytes shorter.
C9_Witness ==
    /\ last.op = "read_offset"
    /\ Offset = "u32"
    /\ last.out = Err("UnsupportedOffset")
    /\ Len(buf) = Len(last.pre) - 8

====
